---- MODULE Spec2Model ----
(***************************************************************************)
(* A model of bad64's binding layer (src/src/lib.rs): the decode entry     *)
(* point, the Instruction facade and the streaming disassembler.           *)
(*                                                                         *)
(* The external decoder (bad64_sys::aarch64_decompose), the mnemonic table *)
(* (bad64_sys::operation_to_str) and the catalogs in operand.rs /          *)
(* operation.rs are not part of lib.rs; they are modelled from the         *)
(* specification as black boxes.                                           *)
(*                                                                         *)
(* u64 addresses are scaled to AddrBits bits: every u64 operation of the   *)
(* code is modelled modulo AddrMod, and the largest address is AddrMax.    *)
(***************************************************************************)
EXTENDS Integers, Naturals, Sequences, FiniteSets, TLC

----------------------------------------------------------------------------
(* Bounds of the model *)

\* width of the address type (u64 in the code), scaled
AddrBits == 4
\* longest byte buffer handed to disassemble
MaxLen == 8
\* number of operand slots of a raw record (bad64_sys::MAX_OPERANDS; the
\* value is set outside lib.rs, and lib.rs is parametric in it)
MAX_OPERANDS == 3

AddrMod == 2 ^ AddrBits
AddrMax == AddrMod - 1
Addresses == 0 .. AddrMax

\* byte values used in buffers (enough to tell the byte positions apart)
ByteVals == {0, 1}
Buffers == UNION {[1 .. n -> ByteVals] : n \in 0 .. MaxLen}

\* the family of deterministic decoders the disassembler is run against
DecoderSeeds == {0, 1}

----------------------------------------------------------------------------
(* Program constants *)

\* step of the address iterator, lib.rs:285
STEP == 4
\* size of a window, lib.rs:286
CHUNK == 4

\* decoder statuses (bad64_sys), as used by the DecodeError discriminants
DECODE_STATUS_OK == 0
DECODE_STATUS_RESERVED == -1
DECODE_STATUS_UNMATCHED == -2
DECODE_STATUS_UNALLOCATED == -3
DECODE_STATUS_UNDEFINED == -4
DECODE_STATUS_END_OF_INSTRUCTION == -5
DECODE_STATUS_LOST == -6
DECODE_STATUS_UNREACHABLE == -7
\* the code bad64 introduces itself
SHORT == -8

----------------------------------------------------------------------------
(* Raw records of the external decoder (spec section 6) *)

\* operand discriminants: the empty sentinel, two recognized forms, and one
\* the classifier has no variant for
OPC_NONE == "NONE"
OPC_REG == "REG"
OPC_IMM64 == "IMM64"
OPC_UNKNOWN == "UNKNOWN"
OperandClasses == {OPC_NONE, OPC_REG, OPC_IMM64, OPC_UNKNOWN}

\* raw operation codes: the "none" sentinel, two mapped codes, one unmapped
OP_NONE == 0
OP_NOP == 1
OP_ADD == 2
OP_UNMAPPED == 3
OperationCodes == {OP_NONE, OP_NOP, OP_ADD, OP_UNMAPPED}

Slots == 1 .. MAX_OPERANDS

\* every record a decoder could write
RawRecords == [operation : OperationCodes, operands : [Slots -> OperandClasses]]

\* MaybeUninit::zeroed(): lib.rs:248
Zeroed == [operation |-> OP_NONE, operands |-> [i \in Slots |-> OPC_NONE]]

\* a well-formed record: operation op, the first n slots populated
WellFormed(op, n) ==
  [operation |-> op,
   operands |-> [i \in Slots |-> IF i <= n THEN (IF i = 1 THEN OPC_REG ELSE OPC_IMM64)
                                         ELSE OPC_NONE]]

\* a reply of the decoder: its status and what it wrote
Reply(st, rec) == [status |-> st, record |-> rec]

\* replies of a decoder that keeps its contract
ConformantReplies ==
  << Reply(DECODE_STATUS_OK, WellFormed(OP_NOP, 0)),
     Reply(DECODE_STATUS_RESERVED, Zeroed),
     Reply(DECODE_STATUS_OK, WellFormed(OP_ADD, MAX_OPERANDS)),
     Reply(DECODE_STATUS_UNMATCHED, Zeroed),
     Reply(DECODE_STATUS_UNALLOCATED, Zeroed),
     Reply(DECODE_STATUS_OK, WellFormed(OP_ADD, 1)),
     Reply(DECODE_STATUS_UNDEFINED, Zeroed),
     Reply(DECODE_STATUS_END_OF_INSTRUCTION, Zeroed),
     Reply(DECODE_STATUS_LOST, Zeroed),
     Reply(DECODE_STATUS_UNREACHABLE, Zeroed) >>

\* the external decoder: a deterministic function of the word and the
\* address; d selects one decoder of the family
aarch64_decompose(d, ins, address) ==
  ConformantReplies[((ins + 3 * address + 7 * d) % Len(ConformantReplies)) + 1]

\* statuses a decoder that breaks its contract may return as well
AllStatuses == (SHORT - 1) .. 1

\* replies of an arbitrary decoder
AllReplies ==
  {Reply(DECODE_STATUS_OK, rec) : rec \in RawRecords}
    \cup {Reply(st, Zeroed) : st \in AllStatuses \ {DECODE_STATUS_OK}}

----------------------------------------------------------------------------
(* Values returned by the API *)

\* a value returned by a method of Instruction: an Option<Operand>, a
\* usize/u64, a string, or no value at all because the call panicked
Val(tag, class, n, str) == [tag |-> tag, class |-> class, n |-> n, str |-> str]
None == Val("None", "-", 0, "-")
Some(c) == Val("Some", c, 0, "-")
Num(n) == Val("num", "-", n, "-")
Str(s) == Val("str", "-", 0, s)
\* unwinding out of the call: a failed assert! or unwrap()
Panicked == Val("panic", "-", 0, "-")

\* struct Instruction, lib.rs:89-92
Instruction(address, inner) == [address |-> address, _inner |-> inner]
NoInsn == Instruction(0, Zeroed)

\* Result<Instruction, DecodeError> and Result<Instruction, (u64, DecodeError)>;
\* Aborted: the call panicked instead of returning
Ok(i) == [kind |-> "Ok", insn |-> i, at |-> 0, err |-> "-"]
Err(e) == [kind |-> "Err", insn |-> NoInsn, at |-> 0, err |-> e]
ErrAt(a, e) == [kind |-> "Err", insn |-> NoInsn, at |-> a, err |-> e]
Aborted == [kind |-> "panic", insn |-> NoInsn, at |-> 0, err |-> "-"]

----------------------------------------------------------------------------
(* enum DecodeError, lib.rs:214-225 *)

DecodeErrors ==
  {"Reserved", "Unmatched", "Unallocated", "Undefined", "EndOfInstruction",
   "Lost", "Unreachable", "Short"}

\* the discriminant of a variant (#[repr(i32)])
DecodeErrorCode(e) ==
  CASE e = "Reserved" -> DECODE_STATUS_RESERVED
    [] e = "Unmatched" -> DECODE_STATUS_UNMATCHED
    [] e = "Unallocated" -> DECODE_STATUS_UNALLOCATED
    [] e = "Undefined" -> DECODE_STATUS_UNDEFINED
    [] e = "EndOfInstruction" -> DECODE_STATUS_END_OF_INSTRUCTION
    [] e = "Lost" -> DECODE_STATUS_LOST
    [] e = "Unreachable" -> DECODE_STATUS_UNREACHABLE
    [] e = "Short" -> SHORT

\* #[derive(FromPrimitive)]: the variant with discriminant r, "-" for none
from_i32(r) ==
  IF \E e \in DecodeErrors : DecodeErrorCode(e) = r
  THEN CHOOSE e \in DecodeErrors : DecodeErrorCode(e) = r
  ELSE "-"

----------------------------------------------------------------------------
(* fn decode, lib.rs:247-256: what it makes of the decoder's status r and  *)
(* of the record the decoder wrote into `decoded`                          *)

\* faulty variant, for mutation analysis: any status that is not negative counts as success
decode_mut_nonneg(address, r, decoded) ==
  IF r >= DECODE_STATUS_OK THEN Ok(Instruction(address, decoded))
  ELSE IF from_i32(r) = "-" THEN Aborted
  ELSE Err(from_i32(r))

decode(address, r, decoded) ==
  IF r = DECODE_STATUS_OK THEN Ok(Instruction(address, decoded))
  ELSE IF from_i32(r) = "-" THEN Aborted
  ELSE Err(from_i32(r))

----------------------------------------------------------------------------
(* impl Instruction *)

\* Operand::try_from(&InstructionOperand).ok() (operand.rs), spec section
\* 4.2: no operand exactly for the empty sentinel, a variant for every
\* recognized discriminant, a fatal violation for any other
Operand_try_from(c) ==
  IF c = OPC_NONE THEN None
  ELSE IF c \in {OPC_REG, OPC_IMM64} THEN Some(c)
  ELSE Panicked

\* operation_to_str (bad64_sys): a total table from raw codes to strings
operation_to_str(op) ==
  CASE op = OP_NONE -> "error"
    [] op = OP_NOP -> "nop"
    [] op = OP_ADD -> "add"
    [] OTHER -> "unknown"

\* Operation::from_u32 (operation.rs): the catalog has no entry for the
\* sentinel nor for an unmapped code ("-")
Operation_from_u32(op) ==
  CASE op = OP_NOP -> "NOP"
    [] op = OP_ADD -> "ADD"
    [] OTHER -> "-"

\* lib.rs:104-108
mnem(self) == Str(operation_to_str(self._inner.operation))

\* lib.rs:119-121
address(self) == Num(self.address)

\* lib.rs:132-136
operation(self) ==
  IF self._inner.operation = OP_NONE THEN Panicked
  ELSE IF Operation_from_u32(self._inner.operation) = "-" THEN Panicked
  ELSE Str(Operation_from_u32(self._inner.operation))

\* faulty variant, for mutation analysis: the bound is one slot short
operand_mut_off_by_one(self, n) ==
  IF n >= MAX_OPERANDS - 1 THEN None
  ELSE Operand_try_from(self._inner.operands[n + 1])

\* lib.rs:157-163; n counts from 0, the slots of the record from 1
operand(self, n) ==
  IF n >= MAX_OPERANDS THEN None
  ELSE Operand_try_from(self._inner.operands[n + 1])

\* lib.rs:176-182: the loop, from slot n on
RECURSIVE scan_operands(_, _)
scan_operands(self, n) ==
  IF n >= MAX_OPERANDS THEN Num(MAX_OPERANDS)
  ELSE IF operand(self, n) = Panicked THEN Panicked
  ELSE IF operand(self, n) = None THEN Num(n)
  ELSE scan_operands(self, n + 1)

\* faulty variant, for mutation analysis: the scan starts at slot 1
num_operands_mut_from_one(self) == scan_operands(self, 1)

\* lib.rs:175-183
num_operands(self) == scan_operands(self, 0)

----------------------------------------------------------------------------
(* fn disassemble, lib.rs:280-295 *)

\* u32::from_le_bytes, lib.rs:289
from_le_bytes(v) == v[1] + 256 * v[2] + 65536 * v[3] + 16777216 * v[4]

\* Step::forward for u64 (what `address..` advances with): the sum leaves
\* the type
forward_overflows(start, n) == start + n > AddrMax
\* and its value when the build wraps
forward(start, n) == (start + n) % AddrMod

\* faulty variant, for mutation analysis: the iterator steps by one address too few
step_by_n_mut_short(a) == IF a.first_take THEN 0 ELSE STEP - 2

\* (address..).step_by(4), lib.rs:284-285: StepBy::next is
\* RangeFrom::nth(0) on the first pull and RangeFrom::nth(step - 1) after;
\* nth(n) yields start + n and leaves start + n + 1 behind
step_by_n(a) == IF a.first_take THEN 0 ELSE STEP - 1
step_by_overflows(a) ==
  \/ forward_overflows(a.start, step_by_n(a))
  \/ forward_overflows(forward(a.start, step_by_n(a)), 1)
step_by_value(a) == forward(a.start, step_by_n(a))
step_by_after(a) ==
  [start |-> forward(step_by_value(a), 1), first_take |-> FALSE]

\* code.chunks(4), lib.rs:286: the next window and the slice left
chunk_len(b) == IF Len(b) < CHUNK THEN Len(b) ELSE CHUNK
chunks_value(b) == SubSeq(b, 1, chunk_len(b))
chunks_after(b) == SubSeq(b, chunk_len(b) + 1, Len(b))

\* the closure of map, lib.rs:287-294
map_closure(d, addr, bytes) ==
  IF Len(bytes) = CHUNK
  THEN LET vv == from_le_bytes(bytes)
           rep == aarch64_decompose(d, vv, addr)
           res == decode(addr, rep.status, rep.record)
       IN IF res.kind = "Err" THEN ErrAt(addr, res.err) ELSE res
  ELSE ErrAt(addr, "Short")

\* the iterator disassemble returns
disassemble(bytes, addr) ==
  [a |-> [start |-> addr, first_take |-> TRUE], b |-> bytes]

\* Zip::next then Map::next: the address first, then the window.
\* out: "item" (Some(item)), "None", or "panic" (the pull unwinds); oc is
\* whether the build checks arithmetic overflow
iter_next(oc, d, it) ==
  IF oc /\ step_by_overflows(it.a)
  THEN [iter |-> it, out |-> "panic", item |-> Aborted]
  ELSE IF it.b = << >>
  THEN [iter |-> [a |-> step_by_after(it.a), b |-> it.b],
        out |-> "None", item |-> Aborted]
  ELSE LET item == map_closure(d, step_by_value(it.a), chunks_value(it.b))
       IN [iter |-> [a |-> step_by_after(it.a), b |-> chunks_after(it.b)],
           out |-> IF item.kind = "panic" THEN "panic" ELSE "item",
           item |-> item]

----------------------------------------------------------------------------
(* State *)

VARIABLES
  overflow_checks,  \* the build panics on arithmetic overflow (debug) or wraps
  decoder,          \* which external decoder is linked
  code,             \* disassemble's byte buffer
  start_address,    \* disassemble's address
  iter,             \* the iterators: the whole buffer and two shards of it
  pc,               \* per iterator: "none", "live", "exhausted", "panicked"
  items,            \* per iterator: what it yielded so far
  split,            \* the window the buffer was split at, once it was
  ext_calls,        \* the decoder invocations of decode: arguments and reply
  result,           \* what decode returned
  ret,              \* the last facade call and what it returned
  opn,              \* per operands() iterator: its captured counter n
  oplive,           \* per operands() iterator: "none", "live", "panicked"
  opitems           \* per operands() iterator: what it yielded so far

disasm_vars == << overflow_checks, decoder, code, start_address, iter, pc, items, split >>
insn_vars == << ext_calls, result, ret, opn, oplive, opitems >>
vars == << overflow_checks, decoder, code, start_address, iter, pc, items, split,
           ext_calls, result, ret, opn, oplive, opitems >>

IterIds == {"whole", "lo", "hi"}
OpIterIds == {1, 2}

NoIter == disassemble(<< >>, 0)
NotCalled == [kind |-> "none", insn |-> NoInsn, at |-> 0, err |-> "-"]
NoRet == [call |-> "none", n |-> 0, val |-> None]

DisasmIdle ==
  /\ overflow_checks = FALSE
  /\ decoder = 0
  /\ code = << >>
  /\ start_address = 0
  /\ iter = [id \in IterIds |-> NoIter]
  /\ pc = [id \in IterIds |-> "none"]
  /\ items = [id \in IterIds |-> << >>]
  /\ split = 0

InsnIdle ==
  /\ ext_calls = << >>
  /\ result = NotCalled
  /\ ret = NoRet
  /\ opn = [i \in OpIterIds |-> 0]
  /\ oplive = [i \in OpIterIds |-> "none"]
  /\ opitems = [i \in OpIterIds |-> << >>]

----------------------------------------------------------------------------
(* The disassembler and its consumer *)

Init ==
  /\ overflow_checks \in BOOLEAN
  /\ decoder \in DecoderSeeds
  /\ code \in Buffers
  /\ start_address \in Addresses
  /\ iter = [id \in IterIds |-> IF id = "whole" THEN disassemble(code, start_address)
                                               ELSE NoIter]
  /\ pc = [id \in IterIds |-> IF id = "whole" THEN "live" ELSE "none"]
  /\ items = [id \in IterIds |-> << >>]
  /\ split = 0
  /\ InsnIdle

\* one pull of iterator id (Iterator::next); the iterators share nothing,
\* so the consumer drives the shards one after the other
Pull(id) ==
  /\ pc[id] = "live"
  /\ id = "hi" => pc["lo"] \in {"exhausted", "panicked"}
  /\ LET r == iter_next(overflow_checks, decoder, iter[id])
     IN /\ iter' = [iter EXCEPT ![id] = r.iter]
        /\ pc' = [pc EXCEPT ![id] = CASE r.out = "panic" -> "panicked"
                                      [] r.out = "None" -> "exhausted"
                                      [] OTHER -> "live"]
        /\ items' = [items EXCEPT ![id] = IF r.out = "item" THEN Append(@, r.item) ELSE @]
  /\ UNCHANGED << overflow_checks, decoder, code, start_address, split >>
  /\ UNCHANGED insn_vars

Ended(id) == pc[id] \in {"exhausted", "panicked"}

\* the consumer splits the buffer at window k and disassembles both parts;
\* it computes the second address as start_address + 4 * k in its own u64
\* arithmetic, which in a build with overflow checks must not overflow
Shard(k) ==
  /\ Ended("whole")
  /\ pc["lo"] = "none"
  /\ CHUNK * k <= Len(code)
  /\ ~ (overflow_checks /\ forward_overflows(start_address, STEP * k))
  /\ split' = k
  /\ iter' = [iter EXCEPT
        !["lo"] = disassemble(SubSeq(code, 1, CHUNK * k), start_address),
        !["hi"] = disassemble(SubSeq(code, CHUNK * k + 1, Len(code)),
                              forward(start_address, STEP * k))]
  /\ pc' = [pc EXCEPT !["lo"] = "live", !["hi"] = "live"]
  /\ UNCHANGED << overflow_checks, decoder, code, start_address, items >>
  /\ UNCHANGED insn_vars

Next ==
  \/ \E id \in IterIds : Pull(id)
  \/ \E k \in 0 .. (MaxLen \div CHUNK) : Shard(k)

Spec == Init /\ [][Next]_vars

----------------------------------------------------------------------------
(* decode and the Instruction facade, against an arbitrary decoder *)

\* the words and addresses decode is called with
DecodeWords == {1}
DecodeAddresses == {0, AddrMax}

InitInsn ==
  /\ DisasmIdle
  /\ InsnIdle

\* decode(ins, addr), lib.rs:247-256: one invocation of the decoder
\* (lib.rs:250), which answers with reply
Decode(ins, addr, reply) ==
  /\ result.kind = "none"
  /\ ext_calls' = Append(ext_calls, [ins |-> ins, address |-> addr,
                                     status |-> reply.status, record |-> reply.record])
  /\ result' = decode(addr, reply.status, reply.record)
  /\ ret' = [call |-> "decode", n |-> addr, val |-> None]
  /\ UNCHANGED << opn, oplive, opitems >>
  /\ UNCHANGED disasm_vars

\* the consumer holds an Instruction and has made no operands() iterator yet
Holding ==
  /\ result.kind = "Ok"
  /\ \A i \in OpIterIds : oplive[i] = "none"

Call(name, n, val) ==
  /\ Holding
  /\ ret' = [call |-> name, n |-> n, val |-> val]
  /\ UNCHANGED << ext_calls, result, opn, oplive, opitems >>
  /\ UNCHANGED disasm_vars

CallMnem == Call("mnem", 0, mnem(result.insn))
CallAddress == Call("address", 0, address(result.insn))
CallOperation == Call("operation", 0, operation(result.insn))
CallOperand(n) == Call("operand", n, operand(result.insn, n))
CallNumOperands == Call("num_operands", 0, num_operands(result.insn))

\* operands(), lib.rs:201-202: a fresh iterator with n = 0
Operands(i) ==
  /\ result.kind = "Ok"
  /\ oplive[i] = "none"
  /\ opn' = [opn EXCEPT ![i] = 0]
  /\ oplive' = [oplive EXCEPT ![i] = "live"]
  /\ ret' = [call |-> "operands", n |-> i, val |-> None]
  /\ UNCHANGED << ext_calls, result, opitems >>
  /\ UNCHANGED disasm_vars

\* faulty variant, for mutation analysis: n is incremented before it is read
operands_index_mut_after(n) == n + 1

\* the index the closure of operands() reads, lib.rs:204
operands_index(n) == n

\* one pull of the iterator, lib.rs:203-209: the closure reads slot n and
\* leaves n + 1; from_fn is not fused, so a pull after a None reads on
OperandsNext(i) ==
  /\ oplive[i] = "live"
  /\ opn[i] <= MAX_OPERANDS
  /\ LET v == operand(result.insn, operands_index(opn[i]))
     IN /\ opn' = [opn EXCEPT ![i] = @ + 1]
        /\ opitems' = [opitems EXCEPT ![i] = Append(@, v)]
        /\ oplive' = [oplive EXCEPT ![i] = IF v = Panicked THEN "panicked" ELSE @]
        /\ ret' = [call |-> "next", n |-> i, val |-> v]
  /\ UNCHANGED << ext_calls, result >>
  /\ UNCHANGED disasm_vars

NextInsn ==
  \/ \E ins \in DecodeWords, addr \in DecodeAddresses, reply \in AllReplies :
       Decode(ins, addr, reply)
  \/ CallMnem
  \/ CallAddress
  \/ CallOperation
  \/ \E n \in 0 .. MAX_OPERANDS + 1 : CallOperand(n)
  \/ CallNumOperands
  \/ \E i \in OpIterIds : Operands(i)
  \/ \E i \in OpIterIds : OperandsNext(i)

SpecInsn == InitInsn /\ [][NextInsn]_vars

----------------------------------------------------------------------------
(* Claims about disassemble (specification Spec) *)

\* the windows of the buffer: all of them, and the full ones
NumWindows == (Len(code) + CHUNK - 1) \div CHUNK
NumFull == Len(code) \div CHUNK
\* the bytes and the address of window i (from 0), in u64 arithmetic
Window(i) == SubSeq(code, CHUNK * i + 1, CHUNK * i + CHUNK)
WindowAddress(i) == (start_address + STEP * i) % AddrMod
\* the address an item carries
ItemAddress(it) == IF it.kind = "Ok" THEN it.insn.address ELSE it.at
IsShort(it) == it.kind = "Err" /\ it.err = "Short"
\* item it is what decode makes of word w at address a, an error paired
\* with a
IsDecodeOf(it, w, a) ==
  LET rep == aarch64_decompose(decoder, w, a)
  IN IF rep.status = DECODE_STATUS_OK
     THEN it.kind = "Ok" /\ it.insn.address = a /\ it.insn._inner = rep.record
     ELSE it.kind = "Err" /\ it.at = a /\ DecodeErrorCode(it.err) = rep.status
\* the little-endian word of four bytes, written out
LittleEndian(w) == ((w[4] * 256 + w[3]) * 256 + w[2]) * 256 + w[1]

\* C1: for every buffer and every start address, pulling
\* disassemble(bytes, start_address) until it ends yields exactly
\* ceil(len(bytes)/4) items (zero items for an empty buffer).
C1_ItemCount ==
  Ended("whole") => Len(items["whole"]) = NumWindows

\* C2: the sequence holds a Short item iff len(bytes) is not a multiple of
\* 4; then there is exactly one, it is the last item, its address is
\* start_address + 4*floor(len/4), and no item of a full window is Short.
C2_ShortIffPartial ==
  Ended("whole") =>
    LET its == items["whole"]
        shorts == {i \in 1 .. Len(its) : IsShort(its[i])}
    IN /\ (shorts # {}) <=> (Len(code) % CHUNK # 0)
       /\ shorts # {} =>
            /\ shorts = {Len(its)}
            /\ its[Len(its)].at = WindowAddress(NumFull)
       /\ \A i \in 1 .. Len(its) : i <= NumFull => ~ IsShort(its[i])

\* C3: for every buffer, every start address and every full window i, the
\* i-th item is decode(w, start_address + 4*i), w the little-endian word of
\* the window: an Ok item has that address, an Err item pairs the decoder's
\* error with it.
C3_ItemIsDecodeOfWindow ==
  Ended("whole") =>
    \A i \in 0 .. NumFull - 1 :
      /\ i < Len(items["whole"])
      /\ IsDecodeOf(items["whole"][i + 1], LittleEndian(Window(i)), WindowAddress(i))

\* C4: after an Err item for a full window the next pull yields the result
\* of the window right after it (no retry, no skip, no early end); the
\* sequence ends only when the input is exhausted; no pull aborts instead
\* of yielding a value.
C4_AdvancesPastErrors ==
  LET its == items["whole"]
  IN /\ pc["whole"] # "panicked"
     /\ pc["whole"] = "exhausted" => Len(its) = NumWindows
     /\ \A i \in 1 .. Len(its) :
          /\ ItemAddress(its[i]) = WindowAddress(i - 1)
          /\ i <= NumFull =>
               IsDecodeOf(its[i], LittleEndian(Window(i - 1)), WindowAddress(i - 1))

----------------------------------------------------------------------------
(* Claims about decode and the facade (specification SpecInsn) *)

\* the Instruction the consumer holds, and the one decoder invocation
Held == result.insn
TheCall == ext_calls[1]
\* no populated slot after the first empty one
Contiguous(rec) ==
  \A i, j \in Slots : (i < j /\ rec.operands[i] = OPC_NONE) => rec.operands[j] = OPC_NONE
\* the mnemonic table of the Operation catalog
Mnemonic(op) == IF op = "NOP" THEN "nop" ELSE IF op = "ADD" THEN "add" ELSE "-"

C6_NoneIffEmpty ==
  ret.call = "operand" =>
    /\ ret.val = None <=>
         (ret.n >= MAX_OPERANDS \/ Held._inner.operands[ret.n + 1] = OPC_NONE)
    /\ (ret.n < MAX_OPERANDS /\ Held._inner.operands[ret.n + 1] = OPC_UNKNOWN) =>
         ret.val = Panicked
    /\ (ret.n < MAX_OPERANDS /\ Held._inner.operands[ret.n + 1] \in {OPC_REG, OPC_IMM64}) =>
         ret.val = Some(Held._inner.operands[ret.n + 1])

\* operand(n) on the last slot, which holds an unrecognized discriminant
C6_Witness ==
  /\ ret.call = "operand"
  /\ ret.n = MAX_OPERANDS - 1
  /\ Held._inner.operands[MAX_OPERANDS] = OPC_UNKNOWN
  /\ ret.val = Panicked

\* C7: decode invokes the decoder exactly once; it returns Ok iff the
\* status is 0, and then address() is the caller's address; for a nonzero
\* status it returns Err of the variant whose code is the status; a status
\* with no variant aborts.
C7_DecodeByStatus ==
  /\ result.kind = "none" => ext_calls = << >>
  /\ result.kind # "none" =>
       /\ Len(ext_calls) = 1
       /\ result.kind = "Ok" <=> TheCall.status = DECODE_STATUS_OK
       /\ result.kind = "Ok" =>
            /\ address(Held) = Num(TheCall.address)
            /\ Held._inner = TheCall.record
       /\ (TheCall.status # DECODE_STATUS_OK
             /\ \E e \in DecodeErrors : DecodeErrorCode(e) = TheCall.status) =>
            /\ result.kind = "Err"
            /\ DecodeErrorCode(result.err) = TheCall.status
       /\ (TheCall.status # DECODE_STATUS_OK
             /\ \A e \in DecodeErrors : DecodeErrorCode(e) # TheCall.status) =>
            result.kind = "panic"

\* decode aborted on a positive status no variant has
C7_Witness ==
  /\ result.kind = "panic"
  /\ Len(ext_calls) = 1
  /\ TheCall.status = 1

\* C8: every operands() yields operand(0), operand(1), ...,
\* operand(num_operands()-1) in slot order and then None, with
\* num_operands() <= MAX_OPERANDS; two enumerations, however interleaved,
\* yield the same; the Instruction is what it was before.
C8_OperandsEnumerates ==
  /\ \A i \in OpIterIds : \A j \in 1 .. Len(opitems[i]) :
       opitems[i][j] = operand(Held, j - 1)
  /\ \A i \in OpIterIds :
       num_operands(Held).tag = "num" =>
         /\ num_operands(Held).n <= MAX_OPERANDS
         /\ \A j \in 1 .. Len(opitems[i]) :
              /\ j <= num_operands(Held).n => opitems[i][j].tag = "Some"
              /\ j = num_operands(Held).n + 1 => opitems[i][j] = None
  /\ \A j \in 1 .. Len(opitems[1]) : j <= Len(opitems[2]) => opitems[1][j] = opitems[2][j]
  /\ result.kind = "Ok" => Held = Instruction(TheCall.address, TheCall.record)

\* one enumeration has run past the end of a two-operand list while a
\* second one is part way
C8_Witness ==
  /\ Len(opitems[1]) = 3
  /\ opitems[1][1] = Some(OPC_IMM64)
  /\ opitems[1][2] = Some(OPC_REG)
  /\ opitems[1][3] = None
  /\ Len(opitems[2]) = 1

\* C9: mnem() is operation() passed through the mnemonic table, and so
\* yields a string only where operation() yields a value: on the "none"
\* sentinel it triggers the assertion.
C9_MnemThroughOperation ==
  ret.call = "mnem" =>
    ret.val = IF operation(Held) = Panicked THEN Panicked
              ELSE Str(Mnemonic(operation(Held).str))

====
